---- MODULE Spec2Model ----
(***************************************************************************)
(* Validation and conversion layer of chain-nodelib: the ow validators of  *)
(* types (owCoin, owTransferAddress, owStakingAddress, owTxId,             *)
(* owInputAddressParams, owStakedState), the builder option validators     *)
(* (Deposit, Unbond, WithdrawUnbonded) and the native conversions          *)
(* (parseOutputForNative, parseStakedStateForNative,                       *)
(* parseStakedStateForNodelib).                                            *)
(*                                                                         *)
(* Every function of the layer is synchronous and stateless, so the state  *)
(* machine is a caller that performs one call at a time: an action per     *)
(* function draws the argument, runs the function and records its result   *)
(* and the delegated checks it made; Return goes back to idle.             *)
(***************************************************************************)
EXTENDS Integers, Sequences, FiniteSets, TLC

VARIABLES
    pc,      \* "idle" or "done"
    op,      \* name of the function of the last call
    arg,     \* argument of the last call
    engine,  \* verdict the external address engine gives for the address of this call
    ret,     \* result of the last call: [ok |-> accepted?] or the converted value
    trace,   \* delegated checks evaluated by the last call, in order
    orig     \* the StakedState a native staked state was converted from

vars == <<pc, op, arg, engine, ret, trace, orig>>

----------------------------------------------------------------------------
(* Bounds *)

\* MAX_COIN_BN is imported from ./init; the model uses a scaled-down ceiling.
MAX_COIN_BN == 12

\* longest address string drawn for the prefix dispatch
MaxAddrLen == 5

----------------------------------------------------------------------------
(* JavaScript values *)

Undefined == [t |-> "undefined"]

Str(s) == [t |-> "string", s |-> s]

\* a finite JS number, held as twice its value so that halves are expressible
Num(n) == [t |-> "number", k |-> "fin", twice |-> 2 * n]

NumHalf(n2) == [t |-> "number", k |-> "fin", twice |-> n2]

NumNaN == [t |-> "number", k |-> "nan", twice |-> 0]

NumInf == [t |-> "number", k |-> "inf", twice |-> 0]

\* a plain object: f maps its own keys to values
Obj(f) == [t |-> "object", f |-> f]

\* a BigNumber instance: (-1)^neg * c / 10^dp, or NaN, or +-Infinity
BN(neg, c, dp) == [t |-> "bignumber", k |-> "fin", neg |-> neg, c |-> c, dp |-> dp]

BNInt(n) == BN(FALSE, n, 0)

BNNaN == [t |-> "bignumber", k |-> "nan", neg |-> FALSE, c |-> 0, dp |-> 0]

BNInf(neg) == [t |-> "bignumber", k |-> "inf", neg |-> neg, c |-> 0, dp |-> 0]

\* object[key]
Get(v, key) == IF v.t = "object" /\ key \in DOMAIN v.f THEN v.f[key] ELSE Undefined

\* a Timespec of ./types/timespec: a point in time, in seconds
Timespec(n) == [t |-> "timespec", seconds |-> n]

\* Timespec.prototype.toNumber
toNumber(v) == Num(v.seconds)

\* the truthiness of a value in a condition
truthy(v) ==
    CASE v.t = "undefined" -> FALSE
      [] v.t = "number"    -> v.k = "inf" \/ (v.k = "fin" /\ v.twice # 0)
      [] v.t = "string"    -> v.s # <<>>
      [] OTHER             -> TRUE

\* typeof value === 'object' (BigNumber instances are objects)
IsObject(v) == v.t \in {"object", "bignumber", "timespec", "feeConfig", "networkConfig"}

\* Number.isInteger
IsInteger(v) == v.t = "number" /\ v.k = "fin" /\ v.twice % 2 = 0

\* ow.number.int16
owInt16(v) == IsInteger(v) /\ v.twice >= 2 * (-32768) /\ v.twice <= 2 * 32767

\* ow.string
owString(v) == v.t = "string"

\* String.prototype.startsWith
startsWith(s, p) == Len(s) >= Len(p) /\ SubSeq(s, 1, Len(p)) = p

----------------------------------------------------------------------------
(* bignumber.js *)

\* DECIMAL_PLACES of bignumber.js (library default; the repository never configures it)
DECIMAL_PLACES == 20

RECURSIVE Pow10(_)
Pow10(k) == IF k = 0 THEN 1 ELSE 10 * Pow10(k - 1)

\* coefficient and decimal places without trailing fractional zeros
RECURSIVE Normalize(_, _)
Normalize(c, dp) ==
    IF dp > 0 /\ c % 10 = 0 THEN Normalize(c \div 10, dp - 1) ELSE [c |-> c, dp |-> dp]

\* floor of c / 10^dp
RECURSIVE Shift(_, _)
Shift(c, dp) == IF dp = 0 THEN c ELSE Shift(c \div 10, dp - 1)

isBigNumber(v) == v.t = "bignumber"

isInteger(v) == v.k = "fin" /\ Normalize(v.c, v.dp).dp = 0

\* v >= 0
isGreaterThanOrEqualTo0(v) ==
    CASE v.k = "nan" -> FALSE
      [] v.k = "inf" -> ~v.neg
      [] OTHER       -> ~v.neg \/ v.c = 0

\* v <= m, m a non-negative integer
isLessThanOrEqualTo(v, m) ==
    CASE v.k = "nan" -> FALSE
      [] v.k = "inf" -> v.neg
      [] OTHER       ->
            \/ v.neg
            \/ LET n == Normalize(v.c, v.dp)
               IN  IF n.dp = 0 THEN n.c <= m ELSE Shift(n.c, n.dp) < m

\* isEqualTo: numeric equality (NaN equals nothing)
isEqualTo(x, y) ==
    /\ x.k # "nan" /\ y.k # "nan"
    /\ x.k = y.k
    /\ IF x.k = "inf" THEN x.neg = y.neg
       ELSE LET a == Normalize(x.c, x.dp)
                b == Normalize(y.c, y.dp)
            IN  a = b /\ (a.c = 0 \/ x.neg = y.neg)

Digit == <<"0", "1", "2", "3", "4", "5", "6", "7", "8", "9">>

RECURSIVE Digits(_)
Digits(c) == IF c < 10 THEN <<Digit[c + 1]>> ELSE Digits(c \div 10) \o <<Digit[(c % 10) + 1]>>

Zeros(n) == [i \in 1..n |-> "0"]

\* toFixedPoint: the digits of c with the point dp places from the right
toFixedPoint(c, dp) ==
    LET ds == Digits(c)
    IN  IF dp = 0 THEN ds
        ELSE IF Len(ds) <= dp THEN <<"0", ".">> \o Zeros(dp - Len(ds)) \o ds
        ELSE SubSeq(ds, 1, Len(ds) - dp) \o <<".">> \o SubSeq(ds, Len(ds) - dp + 1, Len(ds))

\* round(n, DECIMAL_PLACES, ROUND_HALF_UP)
roundDP(c, dp) ==
    IF dp <= DECIMAL_PLACES THEN Normalize(c, dp)
    ELSE LET p == Pow10(dp - DECIMAL_PLACES)
         IN  Normalize((c + p \div 2) \div p, DECIMAL_PLACES)

\* BigNumber.prototype.toString(10)
toString10(v) ==
    CASE v.k = "nan" -> <<"N", "a", "N">>
      [] v.k = "inf" -> (IF v.neg THEN <<"-">> ELSE <<>>) \o <<"I", "n", "f", "i", "n", "i", "t", "y">>
      [] OTHER       ->
            LET n == roundDP(v.c, v.dp)
            IN  (IF v.neg /\ n.c # 0 THEN <<"-">> ELSE <<>>) \o toFixedPoint(n.c, n.dp)

DigitVal(ch) == CHOOSE d \in 0..9 : Digit[d + 1] = ch

IsDigit(ch) == \E d \in 0..9 : Digit[d + 1] = ch

RECURSIVE ToInt(_)
ToInt(ds) == IF ds = <<>> THEN 0 ELSE 10 * ToInt(SubSeq(ds, 1, Len(ds) - 1)) + DigitVal(ds[Len(ds)])

\* new BigNumber(string)
newBigNumber(s) ==
    LET neg  == s # <<>> /\ s[1] = "-"
        body == IF s # <<>> /\ s[1] \in {"-", "+"} THEN SubSeq(s, 2, Len(s)) ELSE s
        dots == {i \in 1..Len(body) : body[i] = "."}
        dot  == IF dots = {} THEN Len(body) + 1 ELSE CHOOSE i \in dots : \A j \in dots : i <= j
        ip   == SubSeq(body, 1, dot - 1)
        fp   == SubSeq(body, dot + 1, Len(body))
        n    == Normalize(ToInt(ip \o fp), Len(fp))
    IN  IF body = <<"I", "n", "f", "i", "n", "i", "t", "y">> THEN BNInf(neg)
        ELSE IF /\ Cardinality(dots) <= 1
                /\ ip \o fp # <<>>
                /\ \A i \in 1..Len(ip \o fp) : IsDigit((ip \o fp)[i])
             THEN BN(neg, n.c, n.dp)
        ELSE BNNaN

----------------------------------------------------------------------------
(* results of validators: accepted?, and the delegated checks evaluated *)

Chk(b) == [ok |-> b, tr |-> <<>>]

\* a then b, b evaluated only if a passed (ow stops at the first failure)
Then(a, b) == IF a.ok THEN [ok |-> b.ok, tr |-> a.tr \o b.tr] ELSE a

Delegated(fn, value, network, verdict) ==
    [ok |-> verdict, tr |-> <<[fn |-> fn, value |-> value, network |-> network]>>]

\* every own key of the object is a key of the shape
NoExtraKeys(v, keys) == v.t = "object" /\ DOMAIN v.f \subseteq keys

----------------------------------------------------------------------------
(* types *)

owBigNumber(v) == IsObject(v) /\ isBigNumber(v)

\* owCoin with the ceiling itself excluded
owCoinStrict(v) ==
    /\ IsObject(v)
    /\ isBigNumber(v)
    /\ isInteger(v)
    /\ isGreaterThanOrEqualTo0(v)
    /\ isLessThanOrEqualTo(v, MAX_COIN_BN - 1)

owCoin(v) ==
    /\ IsObject(v)
    /\ isBigNumber(v)
    /\ isInteger(v)
    /\ isGreaterThanOrEqualTo0(v)
    /\ isLessThanOrEqualTo(v, MAX_COIN_BN)

\* the dispatch with the networks of the two four-letter prefixes exchanged
transferNetworkSwapped(value) ==
    IF startsWith(value, <<"c", "r", "o">>) THEN "Mainnet"
    ELSE IF startsWith(value, <<"t", "c", "r", "o">>) THEN "Devnet"
    ELSE IF startsWith(value, <<"d", "c", "r", "o">>) THEN "Testnet"
    ELSE "none"

\* the network chosen by validateTransferAddress, "none" when it returns false
transferNetwork(value) ==
    IF startsWith(value, <<"c", "r", "o">>) THEN "Mainnet"
    ELSE IF startsWith(value, <<"t", "c", "r", "o">>) THEN "Testnet"
    ELSE IF startsWith(value, <<"d", "c", "r", "o">>) THEN "Devnet"
    ELSE "none"

validateTransferAddress(value, verdict) ==
    LET network == transferNetwork(value)
    IN  IF network = "none" THEN Chk(FALSE)
        ELSE Delegated("isTransferAddressValid", value, network, verdict)

owTransferAddress(v, verdict) ==
    Then(Chk(owString(v)), validateTransferAddress(v.s, verdict))

validateStakingAddress(value, verdict) ==
    Delegated("isStakingAddressValid", value, "none", verdict)

owStakingAddress(v, verdict) ==
    Then(Chk(owString(v)), validateStakingAddress(v.s, verdict))

\* character codes of the characters drawn for transaction ids
CharCode ==
    [ch \in {"/", "0", "9", ":", "@", "A", "F", "G", "_", "a", "f", "g"} |->
        CASE ch = "/" -> 47 [] ch = "0" -> 48 [] ch = "9" -> 57 [] ch = ":" -> 58
          [] ch = "@" -> 64 [] ch = "A" -> 65 [] ch = "F" -> 70 [] ch = "G" -> 71
          [] ch = "_" -> 95 [] ch = "a" -> 97 [] ch = "f" -> 102 [] ch = "g" -> 103]

\* the character class with the upper-case range left out
hexClassLower(ch) ==
    LET code == CharCode[ch]
    IN  \/ (48 <= code /\ code <= 57)
        \/ (97 <= code /\ code <= 102)

\* the character class [0-9A-Fa-f]
hexClass(ch) ==
    LET code == CharCode[ch]
    IN  \/ (48 <= code /\ code <= 57)
        \/ (65 <= code /\ code <= 70)
        \/ (97 <= code /\ code <= 102)

\* [class]{n}$ matched from position i
RECURSIVE matchRun(_, _, _)
matchRun(s, i, n) ==
    IF n = 0 THEN i = Len(s) + 1
    ELSE i <= Len(s) /\ hexClass(s[i]) /\ matchRun(s, i + 1, n - 1)

\* /^[0-9A-Fa-f]{64}$/.test(s)
matchesTxId(s) == matchRun(s, 1, 64)

owTxId(v) == owString(v) /\ matchesTxId(v.s)

\* ow.number.integer.greaterThan(0)
owIntegerGreaterThan0(v) == IsInteger(v) /\ v.twice > 0

\* owInputAddressParams with a strict comparison of the signer counts
owInputAddressParamsStrict(v) ==
    /\ IsObject(v)
    /\ owIntegerGreaterThan0(Get(v, "requiredSigners"))
    /\ owIntegerGreaterThan0(Get(v, "totalSigners"))
    /\ NoExtraKeys(v, {"requiredSigners", "totalSigners"})
    /\ Get(v, "totalSigners").twice > Get(v, "requiredSigners").twice

owInputAddressParams(v) ==
    /\ IsObject(v)
    /\ owIntegerGreaterThan0(Get(v, "requiredSigners"))
    /\ owIntegerGreaterThan0(Get(v, "totalSigners"))
    /\ NoExtraKeys(v, {"requiredSigners", "totalSigners"})
    /\ Get(v, "totalSigners").twice >= Get(v, "requiredSigners").twice

\* parseOutputForNative with the branch taken on the timestamp, not on the Timespec
parseOutputForNativeOnNumber(output) ==
    LET nativeOutput == [address |-> Get(output, "address"),
                         value   |-> Str(toString10(Get(output, "value")))]
    IN  Obj(IF Get(output, "validFrom") # Undefined /\ truthy(toNumber(Get(output, "validFrom")))
            THEN nativeOutput @@ [validFrom |-> toNumber(Get(output, "validFrom"))]
            ELSE nativeOutput)

parseOutputForNative(output) ==
    LET nativeOutput == [address |-> Get(output, "address"),
                         value   |-> Str(toString10(Get(output, "value")))]
    IN  Obj(IF truthy(Get(output, "validFrom"))
            THEN nativeOutput @@ [validFrom |-> toNumber(Get(output, "validFrom"))]
            ELSE nativeOutput)

\* ow.number.integer
owUnixTimestamp(v) == IsInteger(v)

owAccountNonce(v) == owInt16(v)

\* punishment: ow.optional.object.exactShape
owPunishment(v) ==
    \/ v = Undefined
    \/ /\ IsObject(v)
       /\ owString(Get(v, "kind"))
       /\ owUnixTimestamp(Get(v, "jailedUntil"))
       /\ owBigNumber(Get(v, "slashAmount"))
       /\ NoExtraKeys(v, {"kind", "jailedUntil", "slashAmount"})

owConsensusPubkey(v) ==
    /\ IsObject(v)
    /\ owString(Get(v, "type"))
    /\ owString(Get(v, "value"))
    /\ NoExtraKeys(v, {"type", "value"})

\* councilNode: ow.optional.object.exactShape
owCouncilNode(v) ==
    \/ v = Undefined
    \/ /\ IsObject(v)
       /\ owString(Get(v, "name"))
       /\ (Get(v, "securityContact") = Undefined \/ owString(Get(v, "securityContact")))
       /\ owConsensusPubkey(Get(v, "consensusPubkey"))
       /\ NoExtraKeys(v, {"name", "securityContact", "consensusPubkey"})

StakedStateKeys ==
    {"nonce", "bonded", "unbonded", "unbondedFrom", "address", "punishment", "councilNode"}

owStakedState(v, verdict) ==
    Then(Chk(/\ IsObject(v)
             /\ owAccountNonce(Get(v, "nonce"))
             /\ owBigNumber(Get(v, "bonded"))
             /\ owBigNumber(Get(v, "unbonded"))
             /\ owUnixTimestamp(Get(v, "unbondedFrom"))),
    Then(owStakingAddress(Get(v, "address"), verdict),
         Chk(/\ owPunishment(Get(v, "punishment"))
             /\ owCouncilNode(Get(v, "councilNode"))
             /\ NoExtraKeys(v, StakedStateKeys))))

parseStakedStateForNative(stakedState) ==
    Obj([nonce         |-> Get(stakedState, "nonce"),
         bonded        |-> Str(toString10(Get(stakedState, "bonded"))),
         unbonded      |-> Str(toString10(Get(stakedState, "unbonded"))),
         unbonded_from |-> Get(stakedState, "unbondedFrom"),
         address       |-> Get(stakedState, "address")])

parseStakedStateForNodelib(stakedState) ==
    Obj([nonce        |-> Get(stakedState, "nonce"),
         bonded       |-> newBigNumber(Get(stakedState, "bonded").s),
         unbonded     |-> newBigNumber(Get(stakedState, "unbonded").s),
         unbondedFrom |-> Get(stakedState, "unbonded_from"),
         address      |-> Get(stakedState, "address")])

----------------------------------------------------------------------------
(* transaction builder options *)

\* owOptionalNetworkConfig of network/types: absent, or a valid network configuration
owOptionalNetworkConfig(v) == v = Undefined \/ (v.t = "networkConfig" /\ v.valid)

\* owFeeConfig of fee/types: a valid fee configuration
owFeeConfig(v) ==
    [ok |-> v.t = "feeConfig" /\ v.valid,
     tr |-> <<[fn |-> "owFeeConfig", value |-> <<>>, network |-> "none"]>>]

\* the Deposit options without the check for undeclared keys
owDepositTransactionOptionsPartial(v) ==
    /\ IsObject(v)
    /\ owString(Get(v, "stakingAddress"))
    /\ owOptionalNetworkConfig(Get(v, "network"))

owDepositTransactionOptions(v) ==
    /\ IsObject(v)
    /\ owString(Get(v, "stakingAddress"))
    /\ owOptionalNetworkConfig(Get(v, "network"))
    /\ NoExtraKeys(v, {"stakingAddress", "network"})

owUnbondTransactionBuilderOptions(v) ==
    /\ IsObject(v)
    /\ owString(Get(v, "stakingAddress"))
    /\ owInt16(Get(v, "nonce"))
    /\ owCoin(Get(v, "amount"))
    /\ owOptionalNetworkConfig(Get(v, "network"))
    /\ NoExtraKeys(v, {"stakingAddress", "nonce", "amount", "network"})

owWithdrawUnbondedTransactionBuilderOptions(v, verdict) ==
    Then(Chk(IsObject(v)),
    Then(owStakedState(Get(v, "stakedState"), verdict),
    Then(owFeeConfig(Get(v, "feeConfig")),
         Chk(/\ owOptionalNetworkConfig(Get(v, "network"))
             /\ NoExtraKeys(v, {"stakedState", "feeConfig", "network"})))))

----------------------------------------------------------------------------
(* inputs *)

\* largest signer count drawn
MaxSigners == 3

\* how far the length of a drawn transaction id is from 64
MaxTxIdSlack == 2

\* the object without the keys bound to the marker Absent
Absent == [t |-> "absent"]

Present(v) == Obj([k \in {j \in DOMAIN v.f : v.f[j] # Absent} |-> v.f[k]])

StakingAddr == Str(<<"t", "c", "r", "o", "x">>)

Amounts ==
    {BNInt(0), BNInt(MAX_COIN_BN), BNInt(MAX_COIN_BN + 1), BN(FALSE, 5, 1),
     BN(FALSE, 15, DECIMAL_PLACES + 1), BN(TRUE, 1, 0), BNNaN, BNInf(FALSE), Num(1)}

Punishment == Obj([kind |-> Str(<<"j">>), jailedUntil |-> Num(9), slashAmount |-> BNInt(1)])

CouncilNode ==
    Obj([name |-> Str(<<"n">>),
         consensusPubkey |-> Obj([type |-> Str(<<"e">>), value |-> Str(<<"k">>)])])

\* sub-records that lack declared fields
BadPunishment == Obj([kind |-> Str(<<"j">>)])

BadCouncilNode == Obj([name |-> Num(1)])

StakedStateInputs ==
    {Present(Obj(v)) : v \in
        [nonce        : {Num(5), Num(32768)},
         bonded       : {BNInt(3), BNNaN, Num(1)},
         unbonded     : Amounts,
         unbondedFrom : {Num(100), NumHalf(3)},
         address      : {StakingAddr, Num(1)},
         punishment   : {Absent, Punishment, BadPunishment},
         councilNode  : {Absent, CouncilNode, BadCouncilNode},
         extra        : {Absent, Num(1)}]}

\* the staked states the options of WithdrawUnbonded are drawn with
WithdrawStakedStates ==
    {Present(Obj(v)) : v \in
        [nonce        : {Num(5)},
         bonded       : {BNInt(3)},
         unbonded     : Amounts,
         unbondedFrom : {Num(100)},
         address      : {StakingAddr},
         punishment   : {Absent, Punishment}]}

FeeConfigs == {[t |-> "feeConfig", valid |-> b] : b \in BOOLEAN}

NetworkConfigs == {[t |-> "networkConfig", valid |-> b] : b \in BOOLEAN}

WithdrawInputs ==
    {Present(Obj(v)) : v \in
        [stakedState    : WithdrawStakedStates \cup {Absent},
         feeConfig      : FeeConfigs \cup {Absent},
         network        : NetworkConfigs \cup {Absent},
         stakingAddress : {Absent, StakingAddr}]}

\* option objects of the Deposit and Unbond shapes, with fields missing or undeclared
OptionInputs ==
    {Undefined} \cup
    {Present(Obj(v)) : v \in
        [stakingAddress : {Absent, StakingAddr, Str(<<"x">>), Num(1)},
         nonce          : {Absent, Num(5), Num(32768)},
         amount         : {Absent, BNInt(MAX_COIN_BN), BNInt(MAX_COIN_BN + 1)},
         network        : NetworkConfigs \cup {Absent},
         extra          : {Absent, Num(1)}]}

OutputInputs ==
    {Present(Obj(v)) : v \in
        [address   : {Str(s) : s \in {<<"c", "r", "o", "x">>, <<"x">>}},
         value     : Amounts \ {Num(1)},
         validFrom : {Absent, Timespec(0), Timespec(7)}]}

SignerValues ==
    {Num(n) : n \in -1..MaxSigners} \cup {NumHalf(3), NumNaN, NumInf, Str(<<"2">>)}

InputAddressParamsInputs ==
    {Undefined} \cup
    {Obj(f) : f \in UNION {[ks -> SignerValues \cup {Num(1)}] :
                              ks \in SUBSET {"requiredSigners", "totalSigners", "extra"}}}

TxIdChars == DOMAIN CharCode

Repeat(ch, n) == [i \in 1..n |-> ch]

TxIdInputs ==
    {Num(1)} \cup
    {Str([Repeat(base, n) EXCEPT ![pos] = ch]) :
        base \in {"a", "F", "0"}, ch \in TxIdChars,
        pos \in {1, 32, 64 - MaxTxIdSlack},
        n \in (64 - MaxTxIdSlack)..(64 + MaxTxIdSlack)}

Alphabet == {"c", "r", "o", "t", "d"}

AddrStrings == UNION {[1..n -> Alphabet] : n \in 0..MaxAddrLen}

FiniteBNs ==
    {BN(neg, c, dp) : neg \in BOOLEAN, c \in 0..(MAX_COIN_BN + 2), dp \in {0, 1, DECIMAL_PLACES + 1}}

CoinInputs ==
    {v \in FiniteBNs : Normalize(v.c, v.dp).dp = v.dp}
        \cup {BNNaN, BNInf(FALSE), BNInf(TRUE), Obj(<<>>), Num(1), Undefined}

----------------------------------------------------------------------------
(* the caller *)

Init ==
    /\ pc = "idle"
    /\ op = "none"
    /\ arg = Undefined
    /\ engine = FALSE
    /\ ret = Undefined
    /\ trace = <<>>
    /\ orig = Undefined

Validate(o, a, e, r) ==
    /\ pc' = "done"
    /\ op' = o
    /\ arg' = a
    /\ engine' = e
    /\ ret' = [ok |-> r.ok]
    /\ trace' = r.tr
    /\ orig' = Undefined

CallOwCoin ==
    /\ pc = "idle"
    /\ \E v \in CoinInputs : Validate("owCoin", v, FALSE, Chk(owCoin(v)))

CallOwTransferAddress ==
    /\ pc = "idle"
    /\ \E s \in AddrStrings, e \in BOOLEAN :
        Validate("owTransferAddress", Str(s), e, owTransferAddress(Str(s), e))

CallOwInputAddressParams ==
    /\ pc = "idle"
    /\ \E v \in InputAddressParamsInputs :
        Validate("owInputAddressParams", v, FALSE, Chk(owInputAddressParams(v)))

CallOwTxId ==
    /\ pc = "idle"
    /\ \E v \in TxIdInputs : Validate("owTxId", v, FALSE, Chk(owTxId(v)))

Convert(o, a, r) ==
    /\ pc' = "done"
    /\ op' = o
    /\ arg' = a
    /\ engine' = FALSE
    /\ ret' = r
    /\ trace' = <<>>
    /\ orig' = Undefined

CallOwStakedState ==
    /\ pc = "idle"
    /\ \E v \in StakedStateInputs, e \in BOOLEAN :
        Validate("owStakedState", v, e, owStakedState(v, e))

CallOwDepositTransactionOptions ==
    /\ pc = "idle"
    /\ \E v \in OptionInputs, e \in BOOLEAN :
        Validate("owDepositTransactionOptions", v, e, Chk(owDepositTransactionOptions(v)))

CallOwUnbondTransactionBuilderOptions ==
    /\ pc = "idle"
    /\ \E v \in OptionInputs, e \in BOOLEAN :
        Validate("owUnbondTransactionBuilderOptions", v, e,
                 Chk(owUnbondTransactionBuilderOptions(v)))

CallOwWithdrawUnbondedTransactionBuilderOptions ==
    /\ pc = "idle"
    /\ \E v \in WithdrawInputs, e \in BOOLEAN :
        Validate("owWithdrawUnbondedTransactionBuilderOptions", v, e,
                 owWithdrawUnbondedTransactionBuilderOptions(v, e))

CallParseOutputForNative ==
    /\ pc = "idle"
    /\ \E v \in OutputInputs : Convert("parseOutputForNative", v, parseOutputForNative(v))

\* a StakedState that owStakedState accepts is converted to its native form
CallParseStakedStateForNative ==
    /\ pc = "idle"
    /\ \E v \in StakedStateInputs :
        /\ owStakedState(v, TRUE).ok
        /\ Convert("parseStakedStateForNative", v, parseStakedStateForNative(v))

\* the native form just produced is read back, as produced or with the
\* sub-records of the original carried over
CallParseStakedStateForNodelib ==
    /\ pc = "done"
    /\ op = "parseStakedStateForNative"
    /\ \E carried \in SUBSET (DOMAIN arg.f \cap {"punishment", "councilNode"}) :
          LET native == Obj(ret.f @@ [k \in carried |-> arg.f[k]])
          IN  /\ arg' = native
              /\ ret' = parseStakedStateForNodelib(native)
    /\ op' = "parseStakedStateForNodelib"
    /\ orig' = arg
    /\ UNCHANGED <<pc, engine, trace>>

Return ==
    /\ pc = "done"
    /\ pc' = "idle"
    /\ op' = "none"
    /\ arg' = Undefined
    /\ engine' = FALSE
    /\ ret' = Undefined
    /\ trace' = <<>>
    /\ orig' = Undefined

Next ==
    \/ CallOwCoin
    \/ CallOwTransferAddress
    \/ CallOwInputAddressParams
    \/ CallOwTxId
    \/ CallOwStakedState
    \/ CallOwDepositTransactionOptions
    \/ CallOwUnbondTransactionBuilderOptions
    \/ CallOwWithdrawUnbondedTransactionBuilderOptions
    \/ CallParseOutputForNative
    \/ CallParseStakedStateForNative
    \/ CallParseStakedStateForNodelib
    \/ Return

Spec == Init /\ [][Next]_vars

----------------------------------------------------------------------------
(* owCoin *)

\* C1: owCoin accepts a value iff it is an integer n with 0 <= n <= MAX_COIN;
\* 0 and MAX_COIN are accepted, MAX_COIN + 1, negatives, fractions, NaN and the
\* infinities are rejected.
CoinAcceptedIffInRange ==
    (pc = "done" /\ op = "owCoin") =>
        /\ ret.ok <=> (arg.t = "bignumber" /\ \E n \in 0..MAX_COIN_BN : isEqualTo(arg, BNInt(n)))
        /\ arg \in {BNInt(0), BNInt(MAX_COIN_BN)} => ret.ok
        /\ arg \in {BNInt(MAX_COIN_BN + 1), BN(TRUE, 1, 0), BN(FALSE, 5, 1), BNNaN, BNInf(FALSE)} => ~ret.ok

CoinCeilingAccepted ==
    pc = "done" /\ op = "owCoin" /\ arg = BNInt(MAX_COIN_BN) /\ ret.ok

----------------------------------------------------------------------------
(* validateTransferAddress *)

HasPrefix3(s, a, b, c) == Len(s) >= 3 /\ s[1] = a /\ s[2] = b /\ s[3] = c

HasPrefix4(s, a, b, c, d) == Len(s) >= 4 /\ s[1] = a /\ s[2] = b /\ s[3] = c /\ s[4] = d

EngineCall(s, network) == <<[fn |-> "isTransferAddressValid", value |-> s, network |-> network]>>

\* C3: the engine is called with Mainnet iff the string starts with cro, with
\* Testnet iff it starts with tcro, with Devnet iff it starts with dcro, and its
\* verdict is the result; any other string is invalid and the engine is not called.
TransferDispatchByPrefix ==
    (pc = "done" /\ op = "owTransferAddress") =>
        /\ trace = EngineCall(arg.s, "Mainnet") <=> HasPrefix3(arg.s, "c", "r", "o")
        /\ trace = EngineCall(arg.s, "Testnet") <=> HasPrefix4(arg.s, "t", "c", "r", "o")
        /\ trace = EngineCall(arg.s, "Devnet") <=> HasPrefix4(arg.s, "d", "c", "r", "o")
        /\ trace = <<>> <=> ~(\/ HasPrefix3(arg.s, "c", "r", "o")
                              \/ HasPrefix4(arg.s, "t", "c", "r", "o")
                              \/ HasPrefix4(arg.s, "d", "c", "r", "o"))
        /\ trace = <<>> => ~ret.ok
        /\ trace # <<>> => ret.ok = engine

TestnetAddressDelegated ==
    /\ pc = "done" /\ op = "owTransferAddress"
    /\ arg.s = <<"t", "c", "r", "o", "d">>
    /\ trace = EngineCall(arg.s, "Testnet")
    /\ ret.ok

----------------------------------------------------------------------------
(* owInputAddressParams *)

\* C7: owInputAddressParams accepts exactly the objects whose only fields are
\* requiredSigners and totalSigners, both integers greater than 0, with
\* totalSigners >= requiredSigners; {2, 3} is accepted and {3, 2} is rejected.
InputAddressParamsAcceptedIff ==
    (pc = "done" /\ op = "owInputAddressParams") =>
        /\ ret.ok <=>
               /\ arg.t = "object"
               /\ \E r \in 1..MaxSigners : \E t \in r..MaxSigners :
                      arg.f = [requiredSigners |-> Num(r), totalSigners |-> Num(t)]
        /\ arg = Obj([requiredSigners |-> Num(2), totalSigners |-> Num(3)]) => ret.ok
        /\ arg = Obj([requiredSigners |-> Num(3), totalSigners |-> Num(2)]) => ~ret.ok

EqualSignersAccepted ==
    /\ pc = "done" /\ op = "owInputAddressParams"
    /\ arg = Obj([requiredSigners |-> Num(2), totalSigners |-> Num(2)])
    /\ ret.ok

----------------------------------------------------------------------------
(* owTxId *)

HexDigits ==
    {"0", "1", "2", "3", "4", "5", "6", "7", "8", "9",
     "a", "b", "c", "d", "e", "f", "A", "B", "C", "D", "E", "F"}

\* C9: owTxId accepts a string iff it has exactly 64 characters, each of them a
\* hexadecimal digit of either case.
TxIdAcceptedIffHex64 ==
    (pc = "done" /\ op = "owTxId") =>
        ret.ok <=>
            /\ arg.t = "string"
            /\ Len(arg.s) = 64
            /\ \A i \in 1..Len(arg.s) : arg.s[i] \in HexDigits

MixedCaseTxIdAccepted ==
    /\ pc = "done" /\ op = "owTxId"
    /\ arg.t = "string" /\ Len(arg.s) = 64
    /\ arg.s[1] = "F" /\ arg.s[2] = "a"
    /\ ret.ok

----------------------------------------------------------------------------
(* parseOutputForNative *)

\* C10: the native output has the address of the output, the base-10 digits of
\* its amount as value (for an amount that owCoin accepts) and no other field
\* but validFrom, which it has iff the output has a validFrom, and which then is
\* the integer timestamp of that Timespec.
NativeOutputFields ==
    (pc = "done" /\ op = "parseOutputForNative") =>
        /\ ret.f.address = arg.f.address
        /\ owCoin(arg.f.value) =>
               /\ \A i \in 1..Len(ret.f.value.s) : IsDigit(ret.f.value.s[i])
               /\ Len(ret.f.value.s) > 1 => ret.f.value.s[1] # "0"
               /\ ToInt(ret.f.value.s) = arg.f.value.c
        /\ DOMAIN ret.f \subseteq {"address", "value", "validFrom"}
        /\ "validFrom" \in DOMAIN ret.f <=> "validFrom" \in DOMAIN arg.f
        /\ "validFrom" \in DOMAIN arg.f => ret.f.validFrom = Num(arg.f.validFrom.seconds)

ZeroValidFromKept ==
    /\ pc = "done" /\ op = "parseOutputForNative"
    /\ "validFrom" \in DOMAIN arg.f /\ arg.f.validFrom = Timespec(0)
    /\ arg.f.value = BNInt(MAX_COIN_BN)
    /\ ret.f.validFrom = Num(0)

----------------------------------------------------------------------------
(* StakedState conversions *)

\* C5: reading back the native form of a StakedState that owStakedState accepts
\* gives bonded and unbonded numerically equal to the original ones, and the
\* same nonce, address and unbondedFrom.
StakedStateRoundTrip ==
    (pc = "done" /\ op = "parseStakedStateForNodelib") =>
        /\ isEqualTo(ret.f.bonded, orig.f.bonded)
        /\ isEqualTo(ret.f.unbonded, orig.f.unbonded)
        /\ ret.f.nonce = orig.f.nonce
        /\ ret.f.address = orig.f.address
        /\ ret.f.unbondedFrom = orig.f.unbondedFrom

\* C6: a punishment or councilNode sub-record of the argument is in the result
\* of parseStakedStateForNative and of parseStakedStateForNodelib, unchanged.
SubRecordsPassThrough ==
    (pc = "done" /\ op \in {"parseStakedStateForNative", "parseStakedStateForNodelib"}) =>
        \A k \in {"punishment", "councilNode"} :
            k \in DOMAIN arg.f => (k \in DOMAIN ret.f /\ ret.f[k] = arg.f[k])

----------------------------------------------------------------------------
(* transaction builder options *)

ExceedsMaxCoin(v) == v.t = "bignumber" /\ v.k # "nan" /\ ~isLessThanOrEqualTo(v, MAX_COIN_BN)

\* C2: WithdrawUnbonded options whose stakedState.unbonded exceeds MAX_COIN are
\* rejected, and neither the address engine nor the fee validator has been
\* evaluated by then.
WithdrawRejectsUnbondedAboveMax ==
    (/\ pc = "done" /\ op = "owWithdrawUnbondedTransactionBuilderOptions"
     /\ ExceedsMaxCoin(Get(Get(arg, "stakedState"), "unbonded"))) =>
        (~ret.ok /\ trace = <<>>)

OptionValidators ==
    {"owDepositTransactionOptions", "owUnbondTransactionBuilderOptions",
     "owWithdrawUnbondedTransactionBuilderOptions"}

\* C4: each of the three option validators accepts only an option set that has
\* a stakingAddress string with a recognised network prefix which the address
\* engine, called by the validator, has found valid.
OptionsNeedValidStakingAddress ==
    (pc = "done" /\ op \in OptionValidators /\ ret.ok) =>
        /\ owString(Get(arg, "stakingAddress"))
        /\ transferNetwork(Get(arg, "stakingAddress").s) # "none"
        /\ \E i \in 1..Len(trace) : trace[i].value = Get(arg, "stakingAddress").s
        /\ engine

\* C8: the Deposit validator rejects an object with any key other than
\* stakingAddress and network, a well-typed amount included, and the Unbond
\* validator rejects an object without nonce or without amount.
ExactShapeOptions ==
    /\ (pc = "done" /\ op = "owDepositTransactionOptions") =>
          (ret.ok <=>
              /\ arg.t = "object"
              /\ DOMAIN arg.f \subseteq {"stakingAddress", "network"}
              /\ "stakingAddress" \in DOMAIN arg.f /\ arg.f.stakingAddress.t = "string"
              /\ "network" \in DOMAIN arg.f => arg.f.network = [t |-> "networkConfig", valid |-> TRUE])
    /\ (pc = "done" /\ op = "owUnbondTransactionBuilderOptions" /\ ret.ok) =>
          {"stakingAddress", "nonce", "amount"} \subseteq DOMAIN arg.f

DepositWithAmountRejected ==
    /\ pc = "done" /\ op = "owDepositTransactionOptions"
    /\ engine
    /\ arg = Obj([stakingAddress |-> StakingAddr, amount |-> BNInt(MAX_COIN_BN)])
    /\ ~ret.ok

====
